---- MODULE Spec2Model ----
(***************************************************************************)
(* A model of cnc_macrodial/code.py: the page state machine, the           *)
(* dispatcher loop (event_loop_task), the per-slot LedState and the LED    *)
(* tasks (led_task).                                                       *)
(*                                                                         *)
(* Spec is the dispatcher alone, one step for each phase of its tick; the  *)
(* LED tasks do not run in it. SpecKeys is Spec with the history of the    *)
(* release callbacks owed to held keys. SpecLed runs the LED tasks next    *)
(* to the dispatcher as the LEDs see it, FairSpecLed adds the fairness of  *)
(* the scheduler and SpecLedReset the call of OverallState.reset.          *)
(*                                                                         *)
(* Time is counted in whole seconds: the code compares nanosecond          *)
(* differences with sleep_time * 1000000000, the model compares second     *)
(* differences with sleep_time.                                            *)
(***************************************************************************)
EXTENDS Integers, Sequences, FiniteSets, TLC

\* ------------------------------------------------------------------ bounds

\* The largest number of steps a rotary input turns between two polls.
MaxTurn == 2
\* The number of keys that may be held down at the same time.
MaxKeysDown == 1
\* The clock is read up to MaxEarly seconds after the start, and then again
\* sleep_time and sleep_time + 1 seconds after the start.
MaxEarly == 1
\* The last reading of the clock of the LED tasks, in half intervals.
MaxClock == 4

\* ------------------------------------------------------- program constants

None == "None"

LedMode == [OFF |-> 0, ON |-> 1, BLINK |-> 2, PULSE |-> 3]

KeyMode == [NONE |-> 0, MOMENT |-> 1, LONG_MOMENT |-> 2, PRESS |-> 3]

\* JogDialPage.selected_axis = None (an axis is 0, 1 or 2)
NoAxis == -1

\* OverallState.sleep_time = 60 * 15 (seconds)
sleep_time == 900

Slots == 0..11

\* ---------------------------------------------------------------- LedState

\* LedState.__init__ defaults
LedState_init ==
    [on_color |-> <<255, 255, 255>>, off_color |-> <<0, 0, 0>>,
     mode |-> LedMode.OFF, event |-> FALSE]

LedState_reset(ls) == [ls EXCEPT !.mode = LedMode.OFF]

set_on_color(ls, on_color) == [ls EXCEPT !.on_color = on_color, !.event = TRUE]

set_off_color(ls, off_color) == [ls EXCEPT !.off_color = off_color, !.event = TRUE]

\* As LedState.set_mode without event.set()
set_mode_silent(ls, mode) == [ls EXCEPT !.mode = mode]

set_mode(ls, mode) == [ls EXCEPT !.mode = mode, !.event = TRUE]

\* ------------------------------------------------------------- KeySettings

\* A callback is a record; op = "None" is the unbound callback.
NoCallback == [op |-> "None"]

\* macropad.keyboard.send(*keycodes)
Send(keycodes) == [op |-> "send", keycodes |-> keycodes]

\* macropad.keyboard.press(*keycodes)
Press(keycodes) == [op |-> "press", keycodes |-> keycodes]

\* macropad.keyboard.release_all()
ReleaseAll == [op |-> "release_all"]

\* jog_dial_page.select_axis(axis)
SelectAxis(axis) == [op |-> "select_axis", axis |-> axis]

\* KeySettings.__init__ followed by the assignment of the two callbacks
KeySettings(name, on_color, off_color, mode, press_callback, release_callback) ==
    [name |-> name, on_color |-> on_color, off_color |-> off_color, mode |-> mode,
     press_callback |-> press_callback, release_callback |-> release_callback]

\* DisplayPage.__init__: twelve KeySettings(name="")
DefaultKeySettings ==
    [i \in Slots |-> KeySettings("", <<255, 255, 255>>, <<0, 0, 0>>, KeyMode.NONE,
                                 NoCallback, NoCallback)]

StopKey ==
    KeySettings("Stop", <<255, 0, 0>>, <<32, 0, 0>>, KeyMode.MOMENT,
                Send(<<"SHIFT", "TWO">>), NoCallback)

PauseKey ==
    KeySettings("Pause", <<255, 0, 20>>, <<0, 32, 32>>, KeyMode.MOMENT,
                Send(<<"SHIFT", "ONE">>), NoCallback)

StartKey ==
    KeySettings("Start", <<0, 255, 0>>, <<0, 32, 0>>, KeyMode.MOMENT,
                Send(<<"SHIFT", "GRAVE_ACCENT">>), NoCallback)

\* The speed keys shared by the arrow jog page and the jog dial page
SpeedKey(name, keycode) ==
    KeySettings(name, <<255, 0, 20>>, <<32, 32, 0>>, KeyMode.MOMENT,
                Send(<<"SHIFT", keycode>>), NoCallback)

\* An arrow jog key that is sent once on press
ArrowSendKey(name, keycode) ==
    KeySettings(name, <<255, 0, 20>>, <<32, 32, 0>>, KeyMode.MOMENT,
                Send(<<"SHIFT", keycode>>), NoCallback)

\* An arrow jog key that is held while the key is down
ArrowHoldKey(name, keycode) ==
    KeySettings(name, <<255, 0, 20>>, <<32, 32, 0>>, KeyMode.MOMENT,
                Press(<<"SHIFT", keycode>>), ReleaseAll)

AxisKey(name, axis) ==
    KeySettings(name, <<255, 0, 20>>, <<0, 32, 32>>, KeyMode.MOMENT,
                SelectAxis(axis), NoCallback)

ProbeKey(name, keycode) ==
    KeySettings(name, <<255, 0, 20>>, <<0, 32, 32>>, KeyMode.MOMENT,
                Send(<<keycode>>), NoCallback)

job_control_keys ==
    [DefaultKeySettings EXCEPT ![0] = StopKey, ![1] = PauseKey, ![2] = StartKey]

arrow_jog_keys ==
    [DefaultKeySettings EXCEPT
        ![3] = SpeedKey("Precise", "X"),
        ![4] = SpeedKey("Normal", "C"),
        ![5] = SpeedKey("Rapid", "V"),
        ![6] = ArrowSendKey("Z-", "PAGE_DOWN"),
        ![7] = ArrowHoldKey("Y+", "UP_ARROW"),
        ![8] = ArrowSendKey("Z+", "PAGE_UP"),
        ![9] = ArrowHoldKey("X-", "LEFT_ARROW"),
        ![10] = ArrowHoldKey("Y-", "DOWN_ARROW"),
        ![11] = ArrowHoldKey("X+", "RIGHT_ARROW")]

jog_dial_keys ==
    [DefaultKeySettings EXCEPT
        ![3] = SpeedKey("Precise", "X"),
        ![4] = SpeedKey("Normal", "C"),
        ![5] = SpeedKey("Rapid", "V"),
        ![9] = AxisKey("X", 0),
        ![10] = AxisKey("Y", 1),
        ![11] = AxisKey("Z", 2)]

probe_keys ==
    [DefaultKeySettings EXCEPT
        ![0] = StopKey, ![1] = PauseKey, ![2] = StartKey,
        ![4] = ProbeKey("Open", "A"),
        ![6] = ProbeKey("Dia -", "A"),
        ![8] = ProbeKey("Dia +", "B"),
        ![9] = ProbeKey("Left", "A"),
        ![10] = ProbeKey("Confirm", "A"),
        ![11] = ProbeKey("Right", "B")]

rapids_keys ==
    [DefaultKeySettings EXCEPT ![0] = StopKey, ![1] = PauseKey, ![2] = StartKey]

\* ------------------------------------------------------------------- pages

\* main(): the two dedicated pages
sleep_page == "sleep_page"

selection_page == "selection_page"

\* main(): the pages in the order of their add_page calls
Registration ==
    <<"job_control_page", "arrow_jog_page", "jog_dial_page", "probe_page", "rapids_page">>

jog_dial_page == "jog_dial_page"

OrdinaryPages == {Registration[i] : i \in 1..Len(Registration)}

Pages == OrdinaryPages \cup {selection_page, sleep_page}

\* The class each page object is an instance of
class(page) ==
    CASE page = sleep_page -> "SleepPage"
      [] page = selection_page -> "SelectionPage"
      [] page = jog_dial_page -> "JogDialPage"
      [] OTHER -> "SimpleButtonPage"

\* page.title
title(page) ==
    CASE page = "job_control_page" -> "Job Control"
      [] page = "arrow_jog_page" -> "Arrow Jog"
      [] page = "jog_dial_page" -> "Dial Jog"
      [] page = "probe_page" -> "Probe"
      [] page = "rapids_page" -> "Rapids"
      [] page = selection_page -> "Selection"
      [] OTHER -> None

\* page.key_settings
key_settings(page) ==
    CASE page = "job_control_page" -> job_control_keys
      [] page = "arrow_jog_page" -> arrow_jog_keys
      [] page = "jog_dial_page" -> jog_dial_keys
      [] page = "probe_page" -> probe_keys
      [] page = "rapids_page" -> rapids_keys
      [] OTHER -> DefaultKeySettings

\* ------------------------------------------------------------------- state

VARIABLES
    pc,                \* where main() / event_loop_task stands
    page_stack,        \* OverallState.page_stack
    current_page,      \* OverallState.current_page
    previous_page,     \* OverallState.previous_page
    wake_to_page,      \* OverallState.wake_to_page
    last_interaction,  \* OverallState.last_interaction (seconds)
    led_states,        \* OverallState.led_states
    main_group,        \* page.main_group is not None, for every page
    selected_page,     \* SelectionPage.selected_page
    selection,         \* the text of SelectionPage.selection (the label shown)
    selected_axis,     \* JogDialPage.selected_axis
    current_time,      \* event_loop_task: current_time (seconds)
    encoder_held,      \* event_loop_task: encoder_held
    keys_down,         \* keypad: the slots whose last event was a key-down
    calls,             \* the page methods called by the latest step, in order
    sent,              \* the keyboard calls made by the latest step, in order
    tick_page,         \* history: current_page when the running tick began (None between ticks)
    rotation,          \* history: net steps turned since the selection page was activated
    pixels,            \* macropad.pixels (<<>> for a pixel never written)
    led_pc,            \* where led_task(k) stands, for every slot k
    led_clock,         \* led_task: time.monotonic_ns(), in half intervals
    writes,            \* the LedState calls an activation in progress has still to make
    rendered,          \* history: the slot and the colours the latest led_task step wrote
    owed,              \* history: the held slots whose key-down was handled by a page
                       \* that binds a release callback to the slot
    before_sleep       \* history: while the sleep page is current, the page-level
                       \* state as it was just before the idle transition

vars ==
    <<pc, page_stack, current_page, previous_page, wake_to_page, last_interaction,
      led_states, main_group, selected_page, selection, selected_axis, current_time,
      encoder_held, keys_down, calls, sent,
      tick_page, rotation, pixels, led_pc, led_clock, writes, rendered, owed,
      before_sleep>>

\* The state of the LED tasks
led_vars == <<pixels, led_pc, led_clock, writes, rendered>>

\* The part of the state the page methods read and write, as one record
World ==
    [page_stack |-> page_stack, current_page |-> current_page,
     previous_page |-> previous_page, wake_to_page |-> wake_to_page,
     led_states |-> led_states, main_group |-> main_group,
     selected_page |-> selected_page, selection |-> selection,
     selected_axis |-> selected_axis, calls |-> <<>>, sent |-> <<>>]

\* The page-level state: the pages followed, the axis, the tentative pick and
\* mode and colours of the twelve LedStates
PageLevel ==
    [current_page |-> current_page, previous_page |-> previous_page,
     selected_axis |-> selected_axis, selected_page |-> selected_page,
     leds |-> [k \in Slots |->
                 [mode |-> led_states[k].mode, on_color |-> led_states[k].on_color,
                  off_color |-> led_states[k].off_color]]]

Commit(w) ==
    /\ before_sleep' =
            IF w.current_page # sleep_page THEN <<>>
            ELSE IF current_page # sleep_page THEN <<PageLevel>>
            ELSE before_sleep
    /\ page_stack' = w.page_stack
    /\ current_page' = w.current_page
    /\ previous_page' = w.previous_page
    /\ wake_to_page' = w.wake_to_page
    /\ led_states' = w.led_states
    /\ main_group' = w.main_group
    /\ selected_page' = w.selected_page
    /\ selection' = w.selection
    /\ selected_axis' = w.selected_axis
    /\ calls' = w.calls
    /\ sent' = w.sent

\* Records that method fn was called on page self with the arguments arg
Called(w, fn, self, arg) ==
    [w EXCEPT !.calls = Append(@, [fn |-> fn, self |-> self, arg |-> arg])]

Bool(b) == IF b THEN 1 ELSE 0

Abs(n) == IF n < 0 THEN -n ELSE n

\* list.index(x), 0-based
Index(list, x) == (CHOOSE i \in 1..Len(list) : list[i] = x /\ \A j \in 1..(i - 1) : list[j] # x) - 1

\* --------------------------------------------------- activate / deactivate

\* As DisplayPage.activate without the set_mode call
DisplayPage_activate_keep_mode(w, self) ==
    [w EXCEPT
        !.led_states =
            [i \in Slots |->
                set_off_color(
                    set_on_color(w.led_states[i], key_settings(self)[i].on_color),
                    key_settings(self)[i].off_color)],
        !.main_group = [@ EXCEPT ![self] = TRUE]]

DisplayPage_activate(w, self) ==
    [w EXCEPT
        !.led_states =
            [i \in Slots |->
                set_mode(
                    set_off_color(
                        set_on_color(w.led_states[i], key_settings(self)[i].on_color),
                        key_settings(self)[i].off_color),
                    LedMode.OFF)],
        !.main_group = [@ EXCEPT ![self] = TRUE]]

SelectionPage_activate(w, self) ==
    LET w1 == DisplayPage_activate(w, self)
    IN  [w1 EXCEPT !.selected_page = w1.previous_page,
                   !.selection = title(w1.previous_page)]

JogDialPage_activate(w, self) ==
    [DisplayPage_activate(w, self) EXCEPT !.selected_axis = NoAxis]

activate(w, self) ==
    LET w1 == Called(w, "activate", self, <<>>)
    IN  CASE class(self) = "SelectionPage" -> SelectionPage_activate(w1, self)
          [] class(self) = "JogDialPage" -> JogDialPage_activate(w1, self)
          [] OTHER -> DisplayPage_activate(w1, self)

\* As DisplayPage.deactivate without releasing the display group
deactivate_keep_group(w, self) == Called(w, "deactivate", self, <<>>)

deactivate(w, self) ==
    [Called(w, "deactivate", self, <<>>) EXCEPT !.main_group = [@ EXCEPT ![self] = FALSE]]

\* ------------------------------------------------------------ key handling

\* As JogDialPage.select_axis without the test for the selected axis
select_axis_no_toggle(w, axis) ==
    LET off(a) == IF axis = a THEN <<255, 0, 20>> ELSE <<0, 32, 32>>
    IN  [w EXCEPT
            !.selected_axis = axis,
            !.led_states = [@ EXCEPT ![9] = set_off_color(@, off(0)),
                                     ![10] = set_off_color(@, off(1)),
                                     ![11] = set_off_color(@, off(2))]]

select_axis(w, axis) ==
    LET sel == IF axis = w.selected_axis THEN NoAxis ELSE axis
        off(a) == IF sel = a THEN <<255, 0, 20>> ELSE <<0, 32, 32>>
    IN  [w EXCEPT
            !.selected_axis = sel,
            !.led_states = [@ EXCEPT ![9] = set_off_color(@, off(0)),
                                     ![10] = set_off_color(@, off(1)),
                                     ![11] = set_off_color(@, off(2))]]

\* As a call of a bound callback, made twice
Invoke_twice(w, callback) ==
    IF callback.op = "select_axis"
    THEN select_axis(select_axis(w, callback.axis), callback.axis)
    ELSE [w EXCEPT !.sent = @ \o <<callback, callback>>]

\* Calling a bound callback
Invoke(w, callback) ==
    IF callback.op = "select_axis"
    THEN select_axis(w, callback.axis)
    ELSE [w EXCEPT !.sent = Append(@, callback)]

DisplayPage_handle_key_event(w, self, key_number, pressed) ==
    LET ks == key_settings(self)[key_number]
        w1 == IF pressed /\ ks.mode # KeyMode.NONE
              THEN LET wl == [w EXCEPT !.led_states[key_number] = set_mode(@, LedMode.ON)]
                   IN  IF ks.press_callback.op # "None"
                       THEN Invoke(wl, ks.press_callback)
                       ELSE wl
              ELSE w
    IN  IF ~pressed
        THEN LET wr == IF ks.release_callback.op # "None"
                       THEN Invoke(w1, ks.release_callback)
                       ELSE w1
             IN  [wr EXCEPT !.led_states[key_number] = set_mode(@, LedMode.OFF)]
        ELSE w1

handle_key_event(w, self, key_number, pressed) ==
    DisplayPage_handle_key_event(
        Called(w, "handle_key_event", self, <<key_number, Bool(pressed)>>),
        self, key_number, pressed)

\* ---------------------------------------------------------- encoder press

\* As DisplayPage.handle_encoder_press with its two assignments swapped
DisplayPage_handle_encoder_press_swapped(w, self, pressed) ==
    IF pressed /\ selection_page # None
    THEN LET w1 == deactivate(w, w.current_page)
             w2 == [w1 EXCEPT !.current_page = selection_page]
             w3 == [w2 EXCEPT !.previous_page = w2.current_page]
         IN  activate(w3, w3.current_page)
    ELSE w

DisplayPage_handle_encoder_press(w, self, pressed) ==
    IF pressed /\ selection_page # None
    THEN LET w1 == deactivate(w, w.current_page)
             w2 == [w1 EXCEPT !.previous_page = w1.current_page]
             w3 == [w2 EXCEPT !.current_page = selection_page]
         IN  activate(w3, w3.current_page)
    ELSE w

\* As SelectionPage.handle_encoder_press, going back to previous_page
SelectionPage_handle_encoder_press_back(w, self, pressed) ==
    IF pressed /\ selection_page # None
    THEN LET w1 == deactivate(w, w.current_page)
             w2 == [w1 EXCEPT !.current_page = w1.previous_page]
         IN  activate(w2, w2.current_page)
    ELSE w

SelectionPage_handle_encoder_press(w, self, pressed) ==
    IF pressed /\ selection_page # None
    THEN LET w1 == deactivate(w, w.current_page)
             w2 == [w1 EXCEPT !.current_page = w1.selected_page]
         IN  activate(w2, w2.current_page)
    ELSE w

\* As SleepPage.wake without the activate call
SleepPage_wake_without_activate(w, self) ==
    LET w1 == deactivate(w, w.current_page)
    IN  [w1 EXCEPT !.current_page = w1.wake_to_page]

SleepPage_wake(w, self) ==
    LET w1 == deactivate(w, w.current_page)
        w2 == [w1 EXCEPT !.current_page = w1.wake_to_page]
    IN  activate(w2, w2.current_page)

SleepPage_handle_encoder_press(w, self, pressed) ==
    IF pressed THEN SleepPage_wake(w, self) ELSE w

handle_encoder_press(w, self, pressed) ==
    LET w1 == Called(w, "handle_encoder_press", self, <<Bool(pressed)>>)
    IN  CASE class(self) = "SelectionPage" -> SelectionPage_handle_encoder_press(w1, self, pressed)
          [] class(self) = "SleepPage" -> SleepPage_handle_encoder_press(w1, self, pressed)
          [] OTHER -> DisplayPage_handle_encoder_press(w1, self, pressed)

\* ------------------------------------------------------- encoder rotation

\* As SelectionPage.handle_encoder_event, moving the index by change_rel
SelectionPage_handle_encoder_event_by_delta(w, self, change_rel, absolute_value) ==
    LET index == Index(w.page_stack, w.selected_page) + change_rel
        wrapped == IF index < 0
                   THEN Len(w.page_stack) - 1
                   ELSE IF index >= Len(w.page_stack) THEN 0 ELSE index
    IN  [w EXCEPT !.selected_page = w.page_stack[wrapped + 1],
                  !.selection = title(w.page_stack[wrapped + 1])]

SelectionPage_handle_encoder_event(w, self, change_rel, absolute_value) ==
    LET index == Index(w.page_stack, w.selected_page)
        down == IF change_rel < 0
                THEN (IF index - 1 < 0 THEN Len(w.page_stack) - 1 ELSE index - 1)
                ELSE index
        up == IF change_rel > 0
              THEN (IF down + 1 >= Len(w.page_stack) THEN 0 ELSE down + 1)
              ELSE down
    IN  [w EXCEPT !.selected_page = w.page_stack[up + 1],
                  !.selection = title(w.page_stack[up + 1])]

\* As SleepPage.handle_encoder_event, waking on a forward rotation only
SleepPage_handle_encoder_event_forward(w, self, change_rel, absolute_value) ==
    IF change_rel > 0 THEN SleepPage_wake(w, self) ELSE w

SleepPage_handle_encoder_event(w, self, change_rel, absolute_value) ==
    SleepPage_wake(w, self)

handle_encoder_event(w, self, change_rel, absolute_value) ==
    LET w1 == Called(w, "handle_encoder_event", self, <<change_rel, absolute_value>>)
    IN  CASE class(self) = "SelectionPage" ->
                SelectionPage_handle_encoder_event(w1, self, change_rel, absolute_value)
          [] class(self) = "SleepPage" ->
                SleepPage_handle_encoder_event(w1, self, change_rel, absolute_value)
          [] OTHER -> w1

\* --------------------------------------------------------------- jog dial

\* One pass of the loop body of JogDialPage.handle_jog_event: the keyboard
\* calls it makes (none when no branch is taken)
JogBody(change_rel, axis) ==
    CASE change_rel < 0 /\ axis = 0 -> <<Send(<<"SHIFT", "LEFT_ARROW">>)>>
      [] change_rel > 0 /\ axis = 0 -> <<Send(<<"SHIFT", "RIGHT_ARROW">>)>>
      [] change_rel < 0 /\ axis = 1 -> <<Send(<<"SHIFT", "DOWN_ARROW">>)>>
      [] change_rel > 0 /\ axis = 1 -> <<Send(<<"SHIFT", "UP_ARROW">>)>>
      [] change_rel < 0 /\ axis = 2 -> <<Send(<<"SHIFT", "PAGE_DOWN">>)>>
      [] change_rel > 0 /\ axis = 2 -> <<Send(<<"SHIFT", "PAGE_UP">>)>>
      [] OTHER -> <<>>

RECURSIVE JogLoop(_, _, _, _)
\* for i in range(i, n): the loop of JogDialPage.handle_jog_event
JogLoop(out, i, n, body) ==
    IF i >= n THEN out ELSE JogLoop(out \o body, i + 1, n, body)

\* As JogDialPage.handle_jog_event without the loop
JogDialPage_handle_jog_event_once(w, self, change_rel, absolute_value) ==
    [w EXCEPT !.sent = @ \o JogBody(change_rel, w.selected_axis)]

JogDialPage_handle_jog_event(w, self, change_rel, absolute_value) ==
    [w EXCEPT !.sent = JogLoop(@, 0, Abs(change_rel), JogBody(change_rel, w.selected_axis))]

\* As the dispatch of handle_jog_event, with a sleep page that wakes on it
handle_jog_event_wakes(w, self, change_rel, absolute_value) ==
    LET w1 == Called(w, "handle_jog_event", self, <<change_rel, absolute_value>>)
    IN  CASE class(self) = "JogDialPage" ->
                JogDialPage_handle_jog_event(w1, self, change_rel, absolute_value)
          [] class(self) = "SleepPage" -> SleepPage_wake(w1, self)
          [] OTHER -> w1

handle_jog_event(w, self, change_rel, absolute_value) ==
    LET w1 == Called(w, "handle_jog_event", self, <<change_rel, absolute_value>>)
    IN  CASE class(self) = "JogDialPage" ->
                JogDialPage_handle_jog_event(w1, self, change_rel, absolute_value)
          [] OTHER -> w1

\* ---------------------------------------------------------------- startup

\* As OverallState.add_page without the test for the first page
add_page_always(w, page) ==
    LET w1 == [w EXCEPT !.page_stack = Append(@, page)]
    IN  activate([w1 EXCEPT !.current_page = page], page)

add_page(w, page) ==
    LET w1 == [w EXCEPT !.page_stack = Append(@, page)]
    IN  IF w1.current_page = None
        THEN activate([w1 EXCEPT !.current_page = page], page)
        ELSE w1

\* The two rotary counters are measured from the position seen at the last
\* poll: last_jog_pos and last_encoder_pos are the origin, and the position
\* read is the number of steps turned since.
last_jog_pos == 0

last_encoder_pos == 0

PosRange == (0 - MaxTurn)..MaxTurn

\* The slots whose keys the keypad reports: a hold key of the arrow jog page that
\* is unbound on every other page, and the three axis slots of the jog dial page
\* (hold keys on the arrow jog page, send keys on the probe page, unbound elsewhere)
KeySlots == {7, 9, 10, 11}

\* time.monotonic_ns(), in seconds: the readings the clock may give
Readings == (0..MaxEarly) \cup {sleep_time, sleep_time + 1}

Sign(n) == IF n < 0 THEN -1 ELSE IF n > 0 THEN 1 ELSE 0

\* history only: the net number of steps turned on the selection page since its
\* latest activation, modulo the number of pages; by is the direction of the
\* rotation the step delivers to the selection page (0 when it delivers none)
Turned(w, by) ==
    IF \E i \in 1..Len(w.calls) :
          w.calls[i].fn = "activate" /\ w.calls[i].self = selection_page
    THEN 0
    ELSE (rotation + by) % Len(w.page_stack)

Init ==
    /\ pc = "main"
    /\ page_stack = <<>>
    /\ current_page = None
    /\ previous_page = None
    /\ wake_to_page = None
    /\ last_interaction = 0
    /\ led_states = [i \in Slots |-> LedState_init]
    /\ main_group = [p \in Pages |-> FALSE]
    /\ selected_page = None
    /\ selection = None
    /\ selected_axis = NoAxis
    /\ current_time = 0
    /\ encoder_held = FALSE
    /\ keys_down = {}
    /\ calls = <<>>
    /\ sent = <<>>
    /\ tick_page = None
    /\ rotation = 0
    /\ pixels = [k \in Slots |-> <<>>]
    /\ led_pc = [k \in Slots |-> "none"]
    /\ led_clock = 0
    /\ writes = <<>>
    /\ rendered = <<>>
    /\ owed = {}
    /\ before_sleep = <<>>

\* main(): the next state.add_page(...) call
main_add_page ==
    /\ pc = "main"
    /\ Len(page_stack) < Len(Registration)
    /\ Commit(add_page(World, Registration[Len(page_stack) + 1]))
    /\ pc' = IF Len(page_stack) + 1 = Len(Registration) THEN "start" ELSE "main"
    /\ UNCHANGED <<last_interaction, current_time, encoder_held, keys_down, tick_page,
                   rotation, led_vars, owed>>

\* event_loop_task up to its loop
event_loop_start ==
    /\ pc = "start"
    /\ encoder_held' = FALSE
    /\ last_interaction' = current_time
    /\ pc' = "press"
    /\ Commit(World)
    /\ UNCHANGED <<current_time, keys_down, tick_page, rotation, led_vars, owed>>

\* ------------------------------------------------------------- dispatcher

\* As the receiver of an event, read once when the tick begins
Receiver_at_tick_start == IF pc = "press" THEN current_page ELSE tick_page

\* state.current_page at the moment an event is passed on
Receiver == current_page

\* event_loop_task: the clock reading and the encoder switch
encoder_press_step ==
    /\ pc = "press"
    /\ \E now \in Readings, switch \in BOOLEAN :
          /\ now >= current_time
          /\ LET edge == switch /\ ~encoder_held
                 w == IF switch
                      THEN (IF ~encoder_held
                            THEN handle_encoder_press(World, Receiver, TRUE)
                            ELSE World)
                      ELSE handle_encoder_press(World, Receiver, FALSE)
             IN  /\ Commit(w)
                 /\ current_time' = now
                 /\ encoder_held' = switch
                 /\ last_interaction' = IF edge THEN now ELSE last_interaction
                 /\ rotation' = Turned(w, 0)
    /\ tick_page' = current_page
    /\ pc' = "key"
    /\ UNCHANGED <<keys_down, led_vars, owed>>

\* The events the keypad may have queued: a key-down of a key that is up, a
\* key-up of a key that is down
KeyEvents ==
    {[key_number |-> k, pressed |-> TRUE] :
        k \in {k \in KeySlots : k \notin keys_down /\ Cardinality(keys_down) < MaxKeysDown}}
    \cup {[key_number |-> k, pressed |-> FALSE] : k \in keys_down}

\* event_loop_task: at most one key event
key_event_body ==
    /\ pc = "key"
    /\ \/ /\ Commit(World)
          /\ UNCHANGED <<keys_down, last_interaction, rotation>>
       \/ \E key_event \in KeyEvents :
             LET w == handle_key_event(World, Receiver, key_event.key_number,
                                       key_event.pressed)
             IN  /\ Commit(w)
                 /\ keys_down' = IF key_event.pressed
                                 THEN keys_down \cup {key_event.key_number}
                                 ELSE keys_down \ {key_event.key_number}
                 /\ last_interaction' = current_time
                 /\ rotation' = Turned(w, 0)
    /\ pc' = "jog"
    /\ UNCHANGED <<current_time, encoder_held, tick_page, led_vars>>

key_event_step == key_event_body /\ UNCHANGED owed

\* The release callbacks owed after the key event step: a key-down handled by
\* a page that binds both callbacks to the slot adds the slot with that page,
\* a key-up of the slot removes it
Owed ==
    IF calls' # <<>>
    THEN LET k == calls'[1].arg[1]
             self == calls'[1].self
             ks == key_settings(self)[k]
             rest == {o \in owed : o.slot # k}
         IN  IF /\ calls'[1].arg[2] = 1
                /\ ks.mode # KeyMode.NONE
                /\ ks.press_callback.op # "None"
                /\ ks.release_callback.op # "None"
             THEN rest \cup {[slot |-> k, page |-> self]}
             ELSE rest
    ELSE owed

\* The key event step, keeping the history of the release callbacks owed
key_event_owed_step == key_event_body /\ owed' = Owed

\* As the jog dial step, leaving last_interaction alone
jog_step_no_refresh ==
    /\ pc = "jog"
    /\ \E cur_jog_pos \in PosRange :
          IF cur_jog_pos # last_jog_pos
          THEN LET change_rel == cur_jog_pos - last_jog_pos
                   w == handle_jog_event(World, Receiver, change_rel, cur_jog_pos)
               IN  /\ Commit(w)
                   /\ rotation' = Turned(w, 0)
          ELSE /\ Commit(World)
               /\ UNCHANGED rotation
    /\ pc' = "encoder"
    /\ UNCHANGED <<last_interaction, current_time, encoder_held, keys_down, tick_page,
                   led_vars, owed>>

\* event_loop_task: the jog dial
jog_step ==
    /\ pc = "jog"
    /\ \E cur_jog_pos \in PosRange :
          IF cur_jog_pos # last_jog_pos
          THEN LET change_rel == cur_jog_pos - last_jog_pos
                   w == handle_jog_event(World, Receiver, change_rel, cur_jog_pos)
               IN  /\ Commit(w)
                   /\ last_interaction' = current_time
                   /\ rotation' = Turned(w, 0)
          ELSE /\ Commit(World)
               /\ UNCHANGED <<last_interaction, rotation>>
    /\ pc' = "encoder"
    /\ UNCHANGED <<current_time, encoder_held, keys_down, tick_page, led_vars, owed>>

\* event_loop_task: the rotary encoder
encoder_step ==
    /\ pc = "encoder"
    /\ \E cur_encoder_pos \in PosRange :
          IF cur_encoder_pos # last_encoder_pos
          THEN LET change_rel == cur_encoder_pos - last_encoder_pos
                   w == handle_encoder_event(World, Receiver, change_rel, cur_encoder_pos)
               IN  /\ Commit(w)
                   /\ last_interaction' = current_time
                   /\ rotation' = Turned(w, IF current_page = selection_page
                                             THEN Sign(change_rel) ELSE 0)
          ELSE /\ Commit(World)
               /\ UNCHANGED <<last_interaction, rotation>>
    /\ pc' = "idle"
    /\ UNCHANGED <<current_time, encoder_held, keys_down, tick_page, led_vars, owed>>

\* As the condition of the idle check, with >= for >
IdleExpired_inclusive(now, last) == (now - last) >= sleep_time

\* The condition of the idle check
IdleExpired(now, last) == (now - last) > sleep_time

\* As the idle check, recording wake_to_page after current_page is replaced
idle_step_wake_to_sleep ==
    /\ pc = "idle"
    /\ LET w == IF current_page # sleep_page /\ IdleExpired(current_time, last_interaction)
                THEN LET w1 == deactivate(World, current_page)
                         w2 == [w1 EXCEPT !.current_page = sleep_page]
                         w3 == [w2 EXCEPT !.wake_to_page = w2.current_page]
                     IN  activate(w3, w3.current_page)
                ELSE World
       IN  /\ Commit(w)
           /\ rotation' = Turned(w, 0)
    /\ tick_page' = None
    /\ pc' = "press"
    /\ UNCHANGED <<last_interaction, current_time, encoder_held, keys_down, led_vars, owed>>

\* event_loop_task: the idle check, then the yield that ends the tick
idle_step ==
    /\ pc = "idle"
    /\ LET w == IF current_page # sleep_page /\ IdleExpired(current_time, last_interaction)
                THEN LET w1 == deactivate(World, current_page)
                         w2 == [w1 EXCEPT !.wake_to_page = w1.current_page]
                         w3 == [w2 EXCEPT !.current_page = sleep_page]
                     IN  activate(w3, w3.current_page)
                ELSE World
       IN  /\ Commit(w)
           /\ rotation' = Turned(w, 0)
    /\ tick_page' = None
    /\ pc' = "press"
    /\ UNCHANGED <<last_interaction, current_time, encoder_held, keys_down, led_vars, owed>>

Next ==
    \/ main_add_page
    \/ event_loop_start
    \/ encoder_press_step
    \/ key_event_step
    \/ jog_step
    \/ encoder_step
    \/ idle_step

Spec == Init /\ [][Next]_vars

\* The dispatcher with the history of the release callbacks owed
NextKeys ==
    \/ main_add_page
    \/ event_loop_start
    \/ encoder_press_step
    \/ key_event_owed_step
    \/ jog_step
    \/ encoder_step
    \/ idle_step

SpecKeys == Init /\ [][NextKeys]_vars

\* ================================================================ LED tasks
\*
\* The LED specifications run the LED tasks next to the dispatcher. Of the
\* dispatcher they keep what the LEDs depend on: a tick is a series of
\* handler calls on the current page, each with the LedState calls it makes,
\* and ends at the await; the clock, the idle time and the polling of the
\* inputs are left out, so a tick may call any handlers in any number.

\* The slots whose LED task is run
LedSlots == {9}

\* LedState.interval (0.1 s), in the unit of led_clock (0.05 s)
interval == 2

\* As the rule of led_task with the two halves of the BLINK period exchanged
Prescribed_even_on(state, this_update) ==
    CASE state.mode = LedMode.OFF -> state.off_color
      [] state.mode = LedMode.ON -> state.on_color
      [] state.mode = LedMode.BLINK ->
            IF (this_update \div interval) % 2 = 0 THEN state.on_color
            ELSE state.off_color
      [] OTHER -> <<>>

\* led_task: the colour written for a LedState read at time this_update,
\* <<>> when nothing is written (PULSE)
Prescribed(state, this_update) ==
    CASE state.mode = LedMode.OFF -> state.off_color
      [] state.mode = LedMode.ON -> state.on_color
      [] state.mode = LedMode.BLINK ->
            IF (this_update \div interval) % 2 = 1 THEN state.on_color
            ELSE state.off_color
      [] OTHER -> <<>>

\* led_task: the iterations of the loop from one suspension to the next.
\* event.wait() returns at once when the flag is set, so the loop goes round
\* again after event.clear() without a suspension in between.
RECURSIVE led_task_loop(_, _, _)
led_task_loop(state, pixel, out) ==
    LET colour == Prescribed(state, led_clock)
        written == colour # <<>>
        pixel1 == IF written THEN colour ELSE pixel
        out1 == IF written THEN Append(out, colour) ELSE out
    IN  IF state.mode = LedMode.BLINK
        THEN [state |-> state, pixel |-> pixel1, out |-> out1, at |-> "sleep"]
        ELSE IF state.event
        THEN led_task_loop([state EXCEPT !.event = FALSE], pixel1, out1)
        ELSE [state |-> state, pixel |-> pixel1, out |-> out1, at |-> "wait"]

\* No LED task has run in the latest step
NoRender == [key_number |-> -1, colours |-> <<>>]

\* The world after main() has registered its pages (lines 446-601)
InitWorld ==
    [page_stack |-> <<>>, current_page |-> None, previous_page |-> None,
     wake_to_page |-> None, led_states |-> [i \in Slots |-> LedState_init],
     main_group |-> [p \in Pages |-> FALSE], selected_page |-> None,
     selection |-> None, selected_axis |-> NoAxis, calls |-> <<>>, sent |-> <<>>]

RECURSIVE Registered(_)
Registered(n) ==
    IF n = 0 THEN InitWorld
    ELSE [add_page(Registered(n - 1), Registration[n]) EXCEPT !.calls = <<>>]

\* main() up to asyncio.gather: the pages are registered, the dispatcher task
\* and the twelve LED tasks are created and none has run
InitLed ==
    /\ pc = "yield"
    /\ LET w == Registered(Len(Registration))
       IN  /\ page_stack = w.page_stack
           /\ current_page = w.current_page
           /\ previous_page = w.previous_page
           /\ wake_to_page = w.wake_to_page
           /\ led_states = w.led_states
           /\ main_group = w.main_group
           /\ selected_page = w.selected_page
           /\ selection = w.selection
           /\ selected_axis = w.selected_axis
           /\ calls = w.calls
           /\ sent = w.sent
    /\ last_interaction = 0
    /\ current_time = 0
    /\ encoder_held = FALSE
    /\ keys_down = {}
    /\ tick_page = None
    /\ rotation = 0
    /\ pixels = [k \in Slots |-> <<>>]
    /\ led_pc = [k \in Slots |-> "start"]
    /\ led_clock = 0
    /\ writes = <<>>
    /\ rendered = NoRender
    /\ owed = {}
    /\ before_sleep = <<>>

\* DisplayPage.activate: its LedState calls, in the order it makes them
ActivateWrites(self) ==
    [n \in 1..(3 * Cardinality(Slots)) |->
        LET i == (n - 1) \div 3
            ks == key_settings(self)[i]
        IN  CASE (n - 1) % 3 = 0 ->
                    [op |-> "set_on_color", key_number |-> i, color |-> ks.on_color,
                     mode |-> LedMode.OFF]
              [] (n - 1) % 3 = 1 ->
                    [op |-> "set_off_color", key_number |-> i, color |-> ks.off_color,
                     mode |-> LedMode.OFF]
              [] OTHER ->
                    [op |-> "set_mode", key_number |-> i, color |-> <<>>,
                     mode |-> LedMode.OFF]]

\* One LedState call
Write(states, call) ==
    [states EXCEPT ![call.key_number] =
        CASE call.op = "set_on_color" -> set_on_color(@, call.color)
          [] call.op = "set_off_color" -> set_off_color(@, call.color)
          [] OTHER -> set_mode(@, call.mode)]

\* The calls at the head of the series that are for slots whose LED task is
\* not run are made in one step with the call before them: no task that runs
\* reads what they write.
RECURSIVE Drain(_, _)
Drain(states, series) ==
    IF series # <<>> /\ Head(series).key_number \notin LedSlots
    THEN Drain(Write(states, Head(series)), Tail(series))
    ELSE [led_states |-> states, writes |-> series]

\* What a handler call leaves behind: the page state at once, the LedState
\* calls of an activation one by one in the steps that follow
Handled(w) ==
    /\ page_stack' = w.page_stack
    /\ current_page' = w.current_page
    /\ previous_page' = w.previous_page
    /\ wake_to_page' = w.wake_to_page
    /\ main_group' = w.main_group
    /\ selected_page' = w.selected_page
    /\ selection' = w.selection
    /\ selected_axis' = w.selected_axis
    /\ calls' = w.calls
    /\ sent' = w.sent
    /\ LET activated == {i \in 1..Len(w.calls) : w.calls[i].fn = "activate"}
       IN  IF activated = {}
           THEN /\ led_states' = w.led_states
                /\ writes' = <<>>
           ELSE LET self == w.calls[CHOOSE i \in activated : TRUE].self
                    d == Drain(led_states, ActivateWrites(self))
                IN  /\ led_states' = d.led_states
                    /\ writes' = d.writes
    /\ pc' = "tick"
    /\ rendered' = NoRender
    /\ UNCHANGED <<last_interaction, current_time, encoder_held, tick_page, rotation,
                   pixels, led_pc, led_clock, owed, before_sleep>>

\* The dispatcher is between two handler calls of a tick or at the await.
\* It is resumed from the await at any moment.
BetweenCalls == pc \in {"tick", "yield"} /\ writes = <<>>

\* event_loop_task: an encoder press edge
tick_encoder_press ==
    /\ BetweenCalls
    /\ Handled(handle_encoder_press(World, current_page, TRUE))
    /\ UNCHANGED keys_down

\* event_loop_task: a key event of a slot whose LED task is run
tick_key_event ==
    /\ BetweenCalls
    /\ \E key_event \in KeyEvents :
          /\ key_event.key_number \in LedSlots
          /\ Handled(handle_key_event(World, current_page, key_event.key_number,
                                      key_event.pressed))
          /\ keys_down' = IF key_event.pressed
                          THEN keys_down \cup {key_event.key_number}
                          ELSE keys_down \ {key_event.key_number}

\* event_loop_task: an encoder rotation by one step
tick_encoder_event ==
    /\ BetweenCalls
    /\ \E change_rel \in {-1, 1} :
          Handled(handle_encoder_event(World, current_page, change_rel, change_rel))
    /\ UNCHANGED keys_down

\* event_loop_task: the idle transition
tick_idle ==
    /\ BetweenCalls
    /\ current_page # sleep_page
    /\ LET w1 == deactivate(World, current_page)
           w2 == [w1 EXCEPT !.wake_to_page = w1.current_page]
           w3 == [w2 EXCEPT !.current_page = sleep_page]
       IN  Handled(activate(w3, w3.current_page))
    /\ UNCHANGED keys_down

\* DisplayPage.activate: the next LedState call of the activation in progress
tick_write ==
    /\ pc = "tick"
    /\ writes # <<>>
    /\ LET d == Drain(Write(led_states, Head(writes)), Tail(writes))
       IN  /\ led_states' = d.led_states
           /\ writes' = d.writes
    /\ rendered' = NoRender
    /\ UNCHANGED <<pc, page_stack, current_page, previous_page, wake_to_page,
                   last_interaction, main_group, selected_page, selection,
                   selected_axis, current_time, encoder_held, keys_down, calls, sent,
                   tick_page, rotation, pixels, led_pc, led_clock, owed, before_sleep>>

\* event_loop_task: await asyncio.sleep(0), the end of the tick
tick_yield ==
    /\ pc = "tick"
    /\ writes = <<>>
    /\ pc' = "yield"
    /\ calls' = <<>>
    /\ sent' = <<>>
    /\ rendered' = NoRender
    /\ UNCHANGED <<page_stack, current_page, previous_page, wake_to_page,
                   last_interaction, led_states, main_group, selected_page, selection,
                   selected_axis, current_time, encoder_held, keys_down,
                   tick_page, rotation, pixels, led_pc, led_clock, writes, owed,
                   before_sleep>>

\* As the moments at which an LED task may be resumed, were the dispatcher to
\* await inside its handlers
DispatcherSuspended_inside_tick == pc \in {"tick", "yield"}

\* The LED tasks are resumed only while the dispatcher is suspended, and it
\* is suspended only in the await that ends its tick
DispatcherSuspended == pc = "yield"

\* led_task(key_number, state) can be resumed: it was just created, its
\* sleep has ended or its event is set
Runnable(key_number) ==
    \/ led_pc[key_number] \in {"start", "sleep"}
    \/ led_pc[key_number] = "wait" /\ led_states[key_number].event

\* led_task(key_number, state), from its resumption to its next suspension
led_task(key_number) ==
    /\ DispatcherSuspended
    /\ Runnable(key_number)
    /\ LET state == led_states[key_number]
           resumed == IF led_pc[key_number] = "wait"
                      THEN [state EXCEPT !.event = FALSE]
                      ELSE state
           r == led_task_loop(resumed, pixels[key_number], <<>>)
       IN  /\ led_states' = [led_states EXCEPT ![key_number] = r.state]
           /\ pixels' = [pixels EXCEPT ![key_number] = r.pixel]
           /\ led_pc' = [led_pc EXCEPT ![key_number] = r.at]
           /\ rendered' = [key_number |-> key_number, colours |-> r.out]
    /\ UNCHANGED <<pc, page_stack, current_page, previous_page, wake_to_page,
                   last_interaction, main_group, selected_page, selection,
                   selected_axis, current_time, encoder_held, keys_down, calls, sent,
                   tick_page, rotation, led_clock, writes, owed, before_sleep>>

NextLed ==
    \/ tick_encoder_press
    \/ tick_key_event
    \/ tick_encoder_event
    \/ tick_idle
    \/ tick_write
    \/ tick_yield
    \/ \E key_number \in LedSlots : led_task(key_number)

SpecLed == InitLed /\ [][NextLed]_vars

\* OverallState.reset, as far as the LedStates go
OverallState_reset(w) ==
    [Called(w, "reset", None, <<>>) EXCEPT
        !.led_states = [i \in Slots |-> LedState_reset(w.led_states[i])]]

\* A call of state.reset() between two handler calls. Nothing in main() or in
\* event_loop_task makes this call.
tick_reset ==
    /\ BetweenCalls
    /\ Handled(OverallState_reset(World))
    /\ UNCHANGED keys_down

\* A call of led_states[key_number].set_mode(BLINK or PULSE) between two
\* handler calls. Nothing in main() or in event_loop_task makes this call.
tick_set_mode ==
    /\ BetweenCalls
    /\ \E key_number \in LedSlots, mode \in {LedMode.BLINK, LedMode.PULSE} :
          Handled([Called(World, "set_mode", None, <<key_number, mode>>) EXCEPT
                      !.led_states[key_number] = set_mode(@, mode)])
    /\ UNCHANGED keys_down

\* time.monotonic_ns() moves on by half an interval
clock_step ==
    /\ led_clock < MaxClock
    /\ led_clock' = led_clock + 1
    /\ rendered' = NoRender
    /\ UNCHANGED <<pc, page_stack, current_page, previous_page, wake_to_page,
                   last_interaction, led_states, main_group, selected_page, selection,
                   selected_axis, current_time, encoder_held, keys_down, calls, sent,
                   tick_page, rotation, pixels, led_pc, writes, owed, before_sleep>>

\* The LED tasks with the four modes in use and the clock running. The idle
\* time never runs out, so the sleep page is never entered.
NextLedBlink ==
    \/ tick_encoder_press
    \/ tick_key_event
    \/ tick_encoder_event
    \/ tick_set_mode
    \/ tick_write
    \/ tick_yield
    \/ \E key_number \in LedSlots : led_task(key_number)
    \/ clock_step

SpecLedBlink == InitLed /\ [][NextLedBlink]_vars

\* The LED tasks with every operation of LedState in use
SpecLedReset == InitLed /\ [][NextLed \/ tick_reset]_vars

\* The scheduler is fair: a tick makes its LedState calls and comes to its
\* await, and an LED task that can be resumed at the awaits is resumed
FairSpecLed ==
    /\ SpecLed
    /\ WF_vars(tick_write)
    /\ SF_vars(tick_yield)
    /\ \A key_number \in LedSlots : SF_vars(led_task(key_number))

\* ================================================================== claims

Last(seq) == seq[Len(seq)]

\* The latest step called method fn first, on some page
Delivered(fn) == calls # <<>> /\ calls[1].fn = fn

\* The latest step delivered an encoder press edge to page self
PressEdgeTo(self) ==
    /\ Delivered("handle_encoder_press")
    /\ calls[1].self = self
    /\ calls[1].arg = <<1>>

\* The latest step delivered an encoder rotation to page self
RotationTo(self) == Delivered("handle_encoder_event") /\ calls[1].self = self

\* The calls of a page switch from page from to page to
Switch(from, to) ==
    <<[fn |-> "deactivate", self |-> from, arg |-> <<>>],
      [fn |-> "activate", self |-> to, arg |-> <<>>]>>

Elapsed == current_time - last_interaction

\* The page steps positions after page from in page_stack, wrapping around
PageAfter(from, steps) ==
    page_stack[((Index(page_stack, from) + steps) % Len(page_stack)) + 1]

\* C1: an encoder press edge delivered to an ordinary page P deactivates P,
\* makes P the previous_page and the selection page the current page, and
\* activates the selection page.
C1_PressOpensSelection ==
    \A P \in OrdinaryPages :
        PressEdgeTo(P) =>
            /\ previous_page = P
            /\ current_page = selection_page
            /\ ~main_group[P]
            /\ main_group[selection_page]
            /\ SubSeq(calls, 2, Len(calls)) = Switch(P, selection_page)

C1_Witness == PressEdgeTo("rapids_page") /\ current_page = selection_page

\* C2: an encoder press edge delivered to the selection page makes the pick that
\* is shown the current page, activates it and deactivates the selection page;
\* the pick is the page reached from previous_page by the rotations made.
C2_CommitPick ==
    /\ current_page = selection_page =>
            /\ selected_page = PageAfter(previous_page, rotation)
            /\ selection = title(selected_page)
    /\ PressEdgeTo(selection_page) =>
            /\ current_page = selected_page
            /\ current_page = PageAfter(previous_page, rotation)
            /\ title(current_page) = selection
            /\ main_group[current_page]
            /\ ~main_group[selection_page]
            /\ SubSeq(calls, 2, Len(calls)) = Switch(selection_page, current_page)

C2_Witness ==
    /\ PressEdgeTo(selection_page)
    /\ rotation = 3
    /\ previous_page = "probe_page"
    /\ current_page = "arrow_jog_page"

\* C3: a rotation delivered to the selection page moves the index of the pick in
\* page_stack by one position in the direction of the rotation, whatever its
\* size, wrapping around at both ends.
C3_RotationMovesOne ==
    [][(pc = "encoder" /\ current_page = selection_page /\ RotationTo(selection_page)')
        => Index(page_stack, selected_page') =
             (Index(page_stack, selected_page) + Sign(calls'[1].arg[1])) % Len(page_stack)]_vars

C3_Witness ==
    /\ RotationTo(selection_page)
    /\ calls[1].arg[1] = 2
    /\ selected_page = "job_control_page"
    /\ rotation = 2

\* C4 (as amended): when the idle check finds an ordinary page current and more
\* than sleep_time seconds elapsed since last_interaction, it deactivates the
\* page, records it as wake_to_page and activates the sleep page; it does so in
\* no other case, so not when exactly sleep_time seconds have elapsed.
C4_IdleTimeout ==
    pc = "press" =>
        /\ current_page \in OrdinaryPages => Elapsed <= sleep_time
        /\ calls # <<>> =>
              /\ Elapsed > sleep_time
              /\ current_page = sleep_page
              /\ wake_to_page # sleep_page
              /\ calls = Switch(wake_to_page, sleep_page)
              /\ ~main_group[wake_to_page]
              /\ main_group[sleep_page]

C4_Witness ==
    /\ pc = "press"
    /\ calls = Switch("jog_dial_page", sleep_page)
    /\ Elapsed = sleep_time + 1

\* C4 (as claimed): an ordinary page does not stay current through an idle check
\* made sleep_time seconds or more after last_interaction.
C4_Original ==
    (pc = "press" /\ current_page \in OrdinaryPages) => Elapsed < sleep_time

\* C5: an encoder press edge or a rotation delivered to the sleep page
\* deactivates it and activates wake_to_page as the current page, and the idle
\* check of the same tick does not put the system back to sleep.
C5_SleepWakes ==
    /\ [](((PressEdgeTo(sleep_page) \/ RotationTo(sleep_page)) =>
            /\ current_page = wake_to_page
            /\ current_page # sleep_page
            /\ main_group[current_page]
            /\ ~main_group[sleep_page]
            /\ SubSeq(calls, 2, Len(calls)) = Switch(sleep_page, current_page)))
    /\ [][(pc = "idle" /\ tick_page = sleep_page /\ current_page # sleep_page)
            => current_page' = current_page]_vars

C5_Witness ==
    /\ RotationTo(sleep_page)
    /\ calls[1].arg[1] = -2
    /\ current_page = "probe_page"

Handlers ==
    {"handle_encoder_press", "handle_key_event", "handle_jog_event", "handle_encoder_event"}

\* The place in the tick at which each kind of event is passed on
PhaseOf(fn) ==
    CASE fn = "handle_encoder_press" -> "press"
      [] fn = "handle_key_event" -> "key"
      [] fn = "handle_jog_event" -> "jog"
      [] fn = "handle_encoder_event" -> "encoder"

InLoop == pc \in {"press", "key", "jog", "encoder", "idle"}

\* C6: a tick passes the encoder press, the key event, the jog motion and the
\* encoder motion on in this order and then makes the idle check; each event goes
\* to one page, the page that is current_page when the event is passed on.
C6_DeliveryOrder ==
    [][InLoop =>
        /\ pc' = CASE pc = "press" -> "key"
                   [] pc = "key" -> "jog"
                   [] pc = "jog" -> "encoder"
                   [] pc = "encoder" -> "idle"
                   [] pc = "idle" -> "press"
        /\ \A i \in 1..Len(calls') :
              calls'[i].fn \in Handlers =>
                  /\ i = 1
                  /\ pc = PhaseOf(calls'[i].fn)
                  /\ calls'[i].self = current_page]_vars

C6_Witness ==
    /\ Delivered("handle_key_event")
    /\ calls[1].self = selection_page
    /\ tick_page = "arrow_jog_page"

\* C7 (as claimed): handle_encoder_press(True) is called only when the switch
\* goes from released to pressed, handle_encoder_press(False) only when it goes
\* from pressed to released.
C7_EdgeTriggered ==
    [][Delivered("handle_encoder_press")' =>
        IF calls'[1].arg = <<1>> THEN ~encoder_held ELSE encoder_held]_vars

\* C8: once a page has been activated, each of the 12 LedStates has mode OFF
\* and the on_color and off_color of that page's key_settings.
C8_ActivateResetsLeds ==
    \A i \in 1..Len(calls) :
        calls[i].fn = "activate" =>
            \A k \in Slots :
                /\ led_states[k].mode = LedMode.OFF
                /\ led_states[k].on_color = key_settings(calls[i].self)[k].on_color
                /\ led_states[k].off_color = key_settings(calls[i].self)[k].off_color

C8_Witness ==
    /\ calls = Switch("arrow_jog_page", sleep_page)
    /\ keys_down = {7}

\* C9: selected_axis is none, X, Y or Z; a key-down of an axis slot on the jog
\* dial page selects that axis, or clears the selection when that axis is the
\* selected one; while the jog dial page is current the off_color of slots 9,
\* 10, 11 is the highlight colour for the selected axis and the neutral colour
\* for the others.
C9_AxisSelection ==
    [][/\ selected_axis' \in {NoAxis, 0, 1, 2}
       /\ current_page' = jog_dial_page =>
              \A a \in 0..2 :
                  led_states'[9 + a].off_color =
                      IF selected_axis' = a THEN <<255, 0, 20>> ELSE <<0, 32, 32>>
       /\ \A a \in 0..2 :
              (/\ Delivered("handle_key_event")'
               /\ calls'[1].self = jog_dial_page
               /\ calls'[1].arg = <<9 + a, 1>>)
              => selected_axis' = IF selected_axis = a THEN NoAxis ELSE a]_vars

C9_Witness ==
    /\ Delivered("handle_key_event")
    /\ calls[1].self = jog_dial_page
    /\ calls[1].arg = <<10, 1>>
    /\ selected_axis = NoAxis

\* C10: a jog event of delta d delivered to the jog dial page makes no keyboard
\* call when no axis is selected, and otherwise |d| equal keyboard calls, the
\* one that belongs to the selected axis and the sign of d and to no other
\* axis and sign.
C10_JogEmits ==
    (Delivered("handle_jog_event") /\ calls[1].self = jog_dial_page) =>
        LET d == calls[1].arg[1]
        IN  IF selected_axis = NoAxis
            THEN sent = <<>>
            ELSE /\ Len(sent) = Abs(d)
                 /\ \A i \in 1..Len(sent) : sent[i] = sent[1]
                 /\ \A a \in 0..2, sg \in {-1, 1} :
                        (JogBody(sg, a) = <<sent[1]>>)
                            <=> (a = selected_axis /\ sg = Sign(d))

C10_Witness ==
    /\ Delivered("handle_jog_event")
    /\ calls[1].self = jog_dial_page
    /\ calls[1].arg[1] = -2
    /\ selected_axis = 2
    /\ Len(sent) = 2

\* C12: once the first page is registered exactly one page is active: the
\* current page holds its display group and no other page holds one; and a
\* step that activates a page has deactivated another page just before,
\* the first registration excepted, and every deactivate is followed at once
\* by the activate of the incoming page.
C12_OnePageActive ==
    /\ current_page # None =>
            \A p \in Pages : main_group[p] <=> (p = current_page)
    /\ \A i \in 1..Len(calls) :
            /\ calls[i].fn = "activate" =>
                    /\ calls[i].self = current_page
                    /\ \/ pc = "main" /\ page_stack = <<calls[i].self>> /\ i = 1
                       \/ /\ i > 1
                          /\ calls[i - 1].fn = "deactivate"
                          /\ calls[i - 1].self # calls[i].self
            /\ calls[i].fn = "deactivate" =>
                    /\ i < Len(calls)
                    /\ calls[i + 1].fn = "activate"

C12_Witness ==
    /\ Len(calls) = 3
    /\ <<calls[2], calls[3]>> = Switch("arrow_jog_page", selection_page)
    /\ main_group[selection_page]
    /\ ~main_group["arrow_jog_page"]

\* The step delivers an encoder press edge to the page that is current
\* before it
PressEdgeStep ==
    /\ Delivered("handle_encoder_press")'
    /\ calls'[1].self = current_page
    /\ calls'[1].arg = <<1>>

\* The step delivers an encoder rotation to the page that is current before it
RotationStep ==
    /\ Delivered("handle_encoder_event")'
    /\ calls'[1].self = current_page

\* A step from page from to page to that is one of the four page transitions
PageChange(from, to) ==
    \/ /\ from \in OrdinaryPages
       /\ to = selection_page
       /\ PressEdgeStep
    \/ /\ from = selection_page
       /\ to \in OrdinaryPages
       /\ to = selected_page
       /\ PressEdgeStep
    \/ /\ from # sleep_page
       /\ to = sleep_page
       /\ calls' = Switch(from, to)
       /\ pc = "idle"
       /\ Elapsed > sleep_time
    \/ /\ from = sleep_page
       /\ to = wake_to_page
       /\ PressEdgeStep \/ RotationStep

\* C13: the current page is the first page registered until the event loop
\* runs, and from the first registration on it is a registered page, the
\* selection page or the sleep page; every step that changes it is one of
\* the four transitions (ordinary to selection on a press edge, selection
\* to the tentative pick on a press edge, not asleep to sleep on the idle
\* timeout, sleep to wake_to_page on a press edge or a rotation); the steps
\* that handle the key event and the jog dial never change it.
C13_PageMachine ==
    /\ [](page_stack # <<>> =>
            /\ current_page \in
                    {page_stack[i] : i \in 1..Len(page_stack)}
                        \cup {selection_page, sleep_page}
            /\ pc \in {"main", "start"} => current_page = page_stack[1])
    /\ [][/\ (page_stack # <<>> /\ current_page' # current_page) =>
                PageChange(current_page, current_page')
          /\ pc \in {"key", "jog"} => current_page' = current_page]_vars

C13_Witness ==
    /\ pc = "press"
    /\ current_page = sleep_page
    /\ wake_to_page = selection_page
    /\ selected_page = "probe_page"
    /\ calls = Switch(selection_page, sleep_page)

\* The step passes a key event to the page that is current before it
KeyStep ==
    /\ Delivered("handle_key_event")'
    /\ calls'[1].self = current_page

\* What one call of a bound callback does
InvokedOnce(callback) ==
    IF callback.op = "select_axis"
    THEN /\ sent' = <<>>
         /\ selected_axis' = IF callback.axis = selected_axis THEN NoAxis
                              ELSE callback.axis
    ELSE /\ sent' = <<callback>>
         /\ selected_axis' = selected_axis

NotInvoked == sent' = <<>> /\ selected_axis' = selected_axis

\* Mode and colours of slot j are as before the step
SameLed(j) ==
    /\ led_states'[j].mode = led_states[j].mode
    /\ led_states'[j].on_color = led_states[j].on_color
    /\ led_states'[j].off_color = led_states[j].off_color

\* The effect of a key event on a slot whose trigger mode is not NONE, on
\* that slot and on the slots of the set others
KeyEffect(others) ==
    KeyStep =>
        LET k == calls'[1].arg[1]
            pressed == calls'[1].arg[2] = 1
            ks == key_settings(current_page)[k]
            bound == IF pressed THEN ks.press_callback ELSE ks.release_callback
        IN  ks.mode # KeyMode.NONE =>
                /\ led_states'[k].mode = IF pressed THEN LedMode.ON ELSE LedMode.OFF
                /\ IF bound.op # "None" THEN InvokedOnce(bound) ELSE NotInvoked
                /\ \A j \in others \ {k} : SameLed(j)
                /\ \A j \in Slots \ (others \cup {k}) :
                        /\ pressed
                        /\ bound.op = "select_axis"
                        /\ led_states'[j].mode = led_states[j].mode
                        /\ led_states'[j].on_color = led_states[j].on_color
                        /\ led_states'[j].off_color =
                                IF selected_axis' = j - 9 THEN <<255, 0, 20>>
                                ELSE <<0, 32, 32>>

\* The slots that select_axis writes
AxisSlots == {9, 10, 11}

\* C15: a key event for slot k of the current page, k of trigger mode other
\* than NONE: a key-down sets LedState k to mode ON and calls the press
\* callback once if one is bound, a key-up calls the release callback once
\* if one is bound and sets LedState k to mode OFF; mode, on_color and
\* off_color of the other slots are unchanged, except that a key-down whose
\* press callback is select_axis leaves the off_color of slots 9, 10 and 11
\* marking the selected axis.
C15_KeyEffects ==
    [][KeyEffect(IF /\ KeyStep
                    /\ calls'[1].arg[2] = 1
                    /\ key_settings(current_page)[calls'[1].arg[1]].press_callback.op
                            = "select_axis"
                 THEN Slots \ AxisSlots ELSE Slots)]_vars

C15_Witness ==
    /\ Delivered("handle_key_event")
    /\ calls[1].self = jog_dial_page
    /\ calls[1].arg = <<10, 1>>
    /\ selected_axis = 1
    /\ led_states[9].off_color = <<0, 32, 32>>
    /\ led_states[10].off_color = <<255, 0, 20>>
    /\ led_states[10].mode = LedMode.ON

\* C15 as claimed: the other 11 slots are unchanged by every such key event
C15_Original == [][KeyEffect(Slots)]_vars

\* C16: a key-up of a slot whose key-down was handled by a page that called
\* the slot's press callback and binds a release callback to it is handled by
\* that same page and calls that release callback, whatever page switches
\* happened while the key was held.
C16_ReleaseReachesPage ==
    [][\A o \in owed :
          (/\ pc = "key"
           /\ calls' # <<>>
           /\ calls'[1].arg = <<o.slot, 0>>) =>
                /\ calls'[1].self = o.page
                /\ sent' = <<key_settings(o.page)[o.slot].release_callback>>]_vars

\* The latest step detected activity: a press edge, a key event, a jog
\* change or an encoder change
Activity ==
    /\ calls # <<>>
    /\ \/ calls[1].fn \in {"handle_key_event", "handle_jog_event", "handle_encoder_event"}
       \/ calls[1].fn = "handle_encoder_press" /\ calls[1].arg = <<1>>

\* C19: a step of the tick that detects activity leaves last_interaction at
\* the tick's timestamp, where it stays until the idle check of that tick,
\* which then makes no idle transition; and inside the loop last_interaction
\* changes only in a step that detects activity.
C19_ActivityRefreshes ==
    /\ [](Activity => last_interaction = current_time)
    /\ [][/\ (pc \in {"key", "jog", "encoder"} /\ last_interaction = current_time) =>
                last_interaction' = current_time'
          /\ (pc = "idle" /\ last_interaction = current_time) =>
                /\ current_page' = current_page
                /\ calls' = <<>>
          /\ (InLoop /\ last_interaction' # last_interaction) => Activity']_vars

C19_Witness ==
    /\ pc = "idle"
    /\ Delivered("handle_encoder_event")
    /\ current_page \in OrdinaryPages
    /\ wake_to_page = None
    /\ current_time = sleep_time + 1
    /\ last_interaction = current_time

\* C20: a key event or a jog event passed to the sleep page leaves the sleep
\* page current, calls no callback, sends nothing and leaves every indicator
\* in mode OFF, as it is all the time the sleep page is current; a step that
\* leaves the sleep page delivers a press edge or a rotation to it.
C20_SleepDropsKeysAndJog ==
    /\ [](current_page = sleep_page =>
            \A k \in Slots : led_states[k].mode = LedMode.OFF)
    /\ [][/\ (current_page = sleep_page /\ pc \in {"key", "jog"}) =>
                /\ current_page' = sleep_page
                /\ NotInvoked
                /\ Len(calls') <= 1
                /\ \A k \in Slots : led_states'[k].mode = LedMode.OFF
          /\ (current_page = sleep_page /\ current_page' # sleep_page) =>
                PressEdgeStep \/ RotationStep]_vars

C20_Witness ==
    /\ Delivered("handle_key_event")
    /\ calls[1].self = sleep_page
    /\ calls[1].arg = <<7, 0>>
    /\ current_page = sleep_page
    /\ wake_to_page = "arrow_jog_page"

\* Mode OFF or ON: the modes in which led_task writes one fixed colour
Steady(key_number) == led_states[key_number].mode \in {LedMode.OFF, LedMode.ON}

\* The pixel shows the colour the LedState prescribes
Shown(key_number) ==
    pixels[key_number] = Prescribed(led_states[key_number], led_clock)

\* C11: an LED task suspended on its event while the event is not set has
\* written the colour its LedState prescribes (no wake-up is lost); and
\* under fair scheduling, whenever the event of a LedState in mode OFF or ON
\* is set, as every set_on_color, set_off_color and set_mode does, the task
\* later runs and leaves the pixel at the colour the state then prescribes.
C11_LedFollowsState ==
    /\ [](\A k \in LedSlots :
            (led_pc[k] = "wait" /\ ~led_states[k].event /\ Steady(k)) => Shown(k))
    /\ \A k \in LedSlots :
            (led_states[k].event /\ Steady(k))
                ~> (rendered.key_number = k /\ (Shown(k) \/ ~Steady(k)))

C11_Witness ==
    /\ rendered = [key_number |-> 9, colours |-> <<(<<255, 0, 20>>)>>]
    /\ current_page = "arrow_jog_page"
    /\ keys_down = {9}
    /\ led_states[9].mode = LedMode.ON
    /\ ~led_states[9].event
    /\ pixels[9] = <<255, 0, 20>>
    /\ led_pc[9] = "wait"

\* C14: a key event, down or up, of a slot whose trigger mode is NONE calls
\* no callback and leaves the slot's LedState as it was, the wake signal
\* included.
C14_NoneSlotUntouched ==
    [][KeyStep =>
          LET k == calls'[1].arg[1]
          IN  key_settings(current_page)[k].mode = KeyMode.NONE =>
                  /\ NotInvoked
                  /\ led_states'[k] = led_states[k]]_vars

\* C17: every step that changes the on_color, the off_color or the mode of
\* a LedState leaves its wake signal set; and however many times the signal
\* was set, one run of the LED task clears it and, in mode OFF or ON, leaves
\* the pixel at the colour of the latest state with the task suspended until
\* the next signal.
C17_EveryMutationSignals ==
    /\ [][\A k \in Slots : ~SameLed(k) => led_states'[k].event]_vars
    /\ [][\A k \in LedSlots :
            (rendered'.key_number = k /\ Steady(k)) =>
                /\ ~led_states'[k].event
                /\ Shown(k)'
                /\ ~Runnable(k)']_vars

\* The colours and the mode of LedState k are those of one state of the
\* current page: its configured colours, or for an axis slot of the jog dial
\* page the colour select_axis gave it, and mode ON only for a held key
Whole(k) ==
    LET ks == key_settings(current_page)[k]
    IN  /\ led_states[k].on_color = ks.on_color
        /\ \/ led_states[k].off_color = ks.off_color
           \/ /\ class(current_page) = "JogDialPage"
              /\ k \in AxisSlots
              /\ led_states[k].off_color =
                    IF selected_axis = k - 9 THEN <<255, 0, 20>> ELSE <<0, 32, 32>>
        /\ \/ led_states[k].mode = LedMode.OFF
           \/ /\ led_states[k].mode = LedMode.ON
              /\ k \in keys_down
              /\ ks.mode # KeyMode.NONE

\* C18: an LED task runs only while the dispatcher is at the await that ends
\* its tick, with no LedState call of the tick outstanding; what it reads and
\* renders is a whole state of the current page, never the colours or the
\* mode of two pages mixed; and when the calls of an activation are all made
\* every slot has the activated page's colours and mode OFF.
C18_NoPartialUpdate ==
    /\ rendered.key_number # -1 => (pc = "yield" /\ writes = <<>>)
    /\ \A k \in LedSlots :
            rendered.key_number = k =>
                /\ \A i \in 1..Len(rendered.colours) :
                        rendered.colours[i] = Prescribed(led_states[k], led_clock)
                /\ \A j \in Slots : Whole(j)
    /\ \A i \in 1..Len(calls) :
            (calls[i].fn = "activate" /\ writes = <<>>) =>
                \A j \in Slots :
                    /\ led_states[j].on_color = key_settings(calls[i].self)[j].on_color
                    /\ led_states[j].off_color = key_settings(calls[i].self)[j].off_color
                    /\ led_states[j].mode = LedMode.OFF
                    /\ led_states[j].event

C18_Witness ==
    /\ rendered = [key_number |-> 9, colours |-> <<(<<0, 32, 32>>)>>]
    /\ current_page = jog_dial_page
    /\ previous_page = "arrow_jog_page"
    /\ selected_axis = NoAxis
    /\ pixels[9] = <<0, 32, 32>>

\* The step leaves the sleep page
WakeStep == current_page = sleep_page /\ current_page' # sleep_page

\* C22: the wake that follows an idle transition restores current_page and
\* previous_page to what they were just before the idle transition and
\* activates the restored page anew: the twelve LedStates have mode OFF and
\* that page's configured colours, the axis is none if the restored page is
\* the jog dial page and the tentative pick is previous_page if it is the
\* selection page; the axis and the pick are otherwise as before.
C22_SleepWake ==
    [][WakeStep =>
          LET before == before_sleep[1]
              page == before.current_page
          IN  /\ current_page' = page
              /\ previous_page' = before.previous_page
              /\ selected_axis' = IF class(page) = "JogDialPage" THEN NoAxis
                                  ELSE before.selected_axis
              /\ selected_page' = IF class(page) = "SelectionPage"
                                  THEN before.previous_page
                                  ELSE before.selected_page
              /\ \A k \in Slots :
                    /\ led_states'[k].mode = LedMode.OFF
                    /\ led_states'[k].on_color = key_settings(page)[k].on_color
                    /\ led_states'[k].off_color = key_settings(page)[k].off_color]_vars

C22_Witness ==
    /\ PressEdgeTo(sleep_page)
    /\ current_page = jog_dial_page
    /\ selected_axis = NoAxis
    /\ keys_down = {10}
    /\ led_states[10].mode = LedMode.OFF
    /\ led_states[10].off_color = <<0, 32, 32>>

\* C22 as claimed: the wake leaves the whole page-level state as it was just
\* before the idle transition
C22_Original == [][WakeStep => PageLevel' = before_sleep[1]]_vars

\* The pages registered so far
Stacked == {page_stack[i] : i \in 1..Len(page_stack)}

\* C23: in every state the page references a transition follows are valid:
\* while the selection page is current its selected_page is a registered
\* page, previous_page is None or a registered page, while the sleep page is
\* current wake_to_page is a page other than the sleep page, and the page
\* that is current in the loop is never None.
C23_PageReferencesValid ==
    /\ current_page = selection_page => selected_page \in Stacked
    /\ previous_page = None \/ previous_page \in Stacked
    /\ current_page = sleep_page =>
            (wake_to_page \in Stacked \cup {selection_page})
    /\ InLoop => current_page \in Pages

C23_Witness ==
    /\ RotationTo(sleep_page)
    /\ current_page = selection_page
    /\ previous_page = "rapids_page"
    /\ selected_page = previous_page

\* ------------------------------------------------------------------ C21

\* led_task(k) has run in the step
TaskStep(k) == rendered'.key_number = k

\* The task of slot k was resumed without having waited for its event, and
\* the event was set
ResumedSignalled(k) == led_pc[k] # "wait" /\ led_states[k].event

\* C21: a run of the LED task of a slot in BLINK mode writes the pixel once,
\* on_color when floor(t / interval) is odd and off_color when it is even, and
\* ends in the short sleep, never in the wait for the signal; a slot in BLINK
\* mode whose task is in the wait has its signal set. A run in OFF, ON or
\* PULSE mode ends in the wait for the signal with the signal clear; it
\* writes the colour of the mode once, or twice when the task was resumed
\* from its start or its sleep with the signal set, and in PULSE mode it
\* writes nothing.
C21_LedTaskScheduling ==
    [][\A k \in LedSlots :
          /\ led_states'[k].mode = LedMode.BLINK /\ led_pc'[k] = "wait"
                => led_states'[k].event
          /\ TaskStep(k) =>
                LET state == led_states[k]
                    colours == rendered'.colours
                IN  IF state.mode = LedMode.BLINK
                    THEN /\ led_pc'[k] = "sleep"
                         /\ colours = <<IF (led_clock \div interval) % 2 = 1
                                        THEN state.on_color ELSE state.off_color>>
                         /\ pixels'[k] = colours[1]
                    ELSE /\ led_pc'[k] = "wait"
                         /\ ~led_states'[k].event
                         /\ Len(colours) <= (IF ResumedSignalled(k) THEN 2 ELSE 1)
                         /\ \A i \in 1..Len(colours) :
                               /\ state.mode = LedMode.OFF => colours[i] = state.off_color
                               /\ state.mode = LedMode.ON => colours[i] = state.on_color
                               /\ pixels'[k] = colours[i]
                         /\ state.mode = LedMode.PULSE =>
                               colours = <<>> /\ pixels'[k] = pixels[k]]_vars

\* The task of slot 9 has just written on_color in an odd half of the BLINK
\* period and is in its short sleep
C21_Witness ==
    /\ rendered.key_number = 9
    /\ led_states[9].mode = LedMode.BLINK
    /\ led_pc[9] = "sleep"
    /\ (led_clock \div interval) % 2 = 1
    /\ led_states[9].on_color # led_states[9].off_color
    /\ pixels[9] = led_states[9].on_color

\* C21 as stated: a run of the task in OFF, ON or PULSE mode writes the
\* pixel at most once
C21_Original ==
    [][\A k \in LedSlots :
          TaskStep(k) /\ led_states[k].mode # LedMode.BLINK
              => Len(rendered'.colours) <= 1]_vars

====
